---- MODULE Spec2Model ----
(***************************************************************************)
(* Model of src/nlp.py: the keyword parser parse_filters and the coverage  *)
(* pipeline draw_sensor_piechart over the two tables loaded at import.     *)
(*                                                                         *)
(* A Python str is a sequence of one-character strings, so that substring  *)
(* search, \b word boundaries, lower(), upper() and capitalize() are       *)
(* computed and not assumed.  A float duration is an integer number of     *)
(* seconds; a float quotient is the exact fraction [num, den].             *)
(***************************************************************************)
EXTENDS Integers, Sequences, FiniteSets, Bags, TLC

VARIABLES
    mapping,    \* module-level DataFrame `mapping`: a set of sortie rows
    fixed,      \* module-level DataFrame `fixed`: a bag of fence-event rows
    figs,       \* pyplot's process-wide set of open figure numbers
    nl_words,   \* the words of the query the caller typed (nl_query joins them)
    pc,         \* "idle", "parsed", "returned" or "raised"
    filters,    \* the dict parse_filters returned
    merged,     \* the local `merged` of the last call, bound or not
    fig,        \* the figure number the last call opened
    buf,        \* the BytesIO the last call returned
    summary,    \* the summary dict the last call returned
    memo        \* the first returned (query, summary) of a serving session

vars == <<mapping, fixed, figs, nl_words, pc, filters, merged, fig, buf, summary, memo>>

(***************************************************************************)
(* Bounds of the model.                                                    *)
(***************************************************************************)
MaxWords == 2       \* words in a query given to parse_filters alone
MaxEvents == 3      \* rows of the fence-events table
MaxLeaked == 1      \* figures a serving session may leave open

(***************************************************************************)
(* Python str operations.                                                  *)
(***************************************************************************)
LowerOf == [A |-> "a", B |-> "b", C |-> "c", D |-> "d", E |-> "e", F |-> "f",
            G |-> "g", H |-> "h", I |-> "i", J |-> "j", K |-> "k", L |-> "l",
            M |-> "m", N |-> "n", O |-> "o", P |-> "p", Q |-> "q", R |-> "r",
            S |-> "s", T |-> "t", U |-> "u", V |-> "v", W |-> "w", X |-> "x",
            Y |-> "y", Z |-> "z"]

UpperOf == [a |-> "A", b |-> "B", c |-> "C", d |-> "D", e |-> "E", f |-> "F",
            g |-> "G", h |-> "H", i |-> "I", j |-> "J", k |-> "K", l |-> "L",
            m |-> "M", n |-> "N", o |-> "O", p |-> "P", q |-> "Q", r |-> "R",
            s |-> "S", t |-> "T", u |-> "U", v |-> "V", w |-> "W", x |-> "X",
            y |-> "Y", z |-> "Z"]

\* the characters the regex class \w matches
WordChars == DOMAIN LowerOf \cup DOMAIN UpperOf \cup
             {"0", "1", "2", "3", "4", "5", "6", "7", "8", "9", "_"}

lower_char(c) == IF c \in DOMAIN LowerOf THEN LowerOf[c] ELSE c

upper_char(c) == IF c \in DOMAIN UpperOf THEN UpperOf[c] ELSE c

RECURSIVE lower(_)
lower(s) == IF s = <<>> THEN <<>> ELSE <<lower_char(Head(s))>> \o lower(Tail(s))

RECURSIVE upper(_)
upper(s) == IF s = <<>> THEN <<>> ELSE <<upper_char(Head(s))>> \o upper(Tail(s))

\* first character upper-cased, the rest lower-cased
capitalize(s) == IF s = <<>> THEN <<>> ELSE <<upper_char(Head(s))>> \o lower(Tail(s))

\* the positions at which w occurs in s
Occurrences(s, w) ==
    {i \in 1..(Len(s) - Len(w) + 1) : s[i] = w[1] /\ SubSeq(s, i, i + Len(w) - 1) = w}

\* `w in s`, and re.search(w, s) for a pattern w without metacharacters
Contains(s, w) == Occurrences(s, w) # {}

\* re.search(r"\bw\b", s) for a w that starts and ends with a word character
SearchWholeWord(s, w) ==
    \E i \in Occurrences(s, w) :
        /\ (i = 1 \/ s[i - 1] \notin WordChars)
        /\ (i + Len(w) > Len(s) \/ s[i + Len(w)] \notin WordChars)

\* " ".join(ws)
RECURSIVE JoinWords(_)
JoinWords(ws) ==
    IF Len(ws) = 0 THEN <<>>
    ELSE IF Len(ws) = 1 THEN ws[1]
    ELSE ws[1] \o <<" ">> \o JoinWords(Tail(ws))

nl_query == JoinWords(nl_words)

(***************************************************************************)
(* parse_filters: keyword tables and the four keyword scans.               *)
(***************************************************************************)
platform_keywords == <<
    <<"o", "r", "b">>,
    <<"k", "a", "i", "r", "o", "s">>,
    <<"f", "i", "b", "e", "r">>,
    <<"a", "f", "o">>,
    <<"p", "a", "r", "r", "o", "t">>,
    <<"q", "u", "a", "n", "t", "i", "x">>,
    <<"n", "e", "r", "o", "s">>,
    <<"s", "t", "u", "r", "n", "a", "s">>,
    <<"b", "o", "r", "e", "s", "i", "g", "h", "t">>,
    <<"m", "a", "v", "i", "c">>,
    <<"b", "l", "i", "m", "p">> >>

sensor_keywords == <<
    <<"p", "c", "l">>,
    <<"g", "o", "t", "c", "h", "a">>,
    <<"r", "i", "n", "g", "_", "5">>,
    <<"s", "t", "a", "r", "d", "u", "s", "t">> >>

s_high == <<"h", "i", "g", "h">>
s_low == <<"l", "o", "w">>
s_medium == <<"m", "e", "d", "i", "u", "m">>
s_high_speed == <<"h", "i", "g", "h", " ", "s", "p", "e", "e", "d">>
s_fast == <<"f", "a", "s", "t">>
s_low_speed == <<"l", "o", "w", " ", "s", "p", "e", "e", "d">>
s_slow == <<"s", "l", "o", "w">>
s_medium_speed == <<"m", "e", "d", "i", "u", "m", " ", "s", "p", "e", "e", "d">>
s_High == <<"H", "i", "g", "h">>
s_Low == <<"L", "o", "w">>
s_Medium == <<"M", "e", "d", "i", "u", "m">>
s_Fast == <<"F", "a", "s", "t">>
s_Slow == <<"S", "l", "o", "w">>
s_PCL == <<"P", "C", "L">>

\* the empty dict
EmptyDict == [k \in {} |-> <<>>]

\* the first keyword of kws, in list order, that occurs in nl; 0 when none does
FirstIn(kws, nl) ==
    LET hits == {i \in 1..Len(kws) : Contains(nl, lower(kws[i]))}
    IN  IF hits = {} THEN 0 ELSE CHOOSE i \in hits : \A j \in hits : i <= j

platform_filter(nl) ==
    LET i == FirstIn(platform_keywords, nl)
    IN  IF i = 0 THEN EmptyDict ELSE "Platform" :> capitalize(platform_keywords[i])

\* variant: "low" tested before "high"
altitude_filter_low_first(nl) ==
    IF SearchWholeWord(nl, s_low) THEN "Altitude" :> s_Low
    ELSE IF SearchWholeWord(nl, s_high) THEN "Altitude" :> s_High
    ELSE IF SearchWholeWord(nl, s_medium) THEN "Altitude" :> s_Medium
    ELSE EmptyDict

altitude_filter(nl) ==
    IF SearchWholeWord(nl, s_high) THEN "Altitude" :> s_High
    ELSE IF SearchWholeWord(nl, s_low) THEN "Altitude" :> s_Low
    ELSE IF SearchWholeWord(nl, s_medium) THEN "Altitude" :> s_Medium
    ELSE EmptyDict

speed_filter(nl) ==
    IF Contains(nl, s_high_speed) \/ Contains(nl, s_fast) THEN "Speed" :> s_Fast
    ELSE IF Contains(nl, s_low_speed) \/ Contains(nl, s_slow) THEN "Speed" :> s_Slow
    ELSE IF Contains(nl, s_medium_speed) THEN "Speed" :> s_Medium
    ELSE EmptyDict

sensor_filter(nl) ==
    LET i == FirstIn(sensor_keywords, nl)
    IN  IF i = 0 THEN "c_uas" :> s_PCL ELSE "c_uas" :> upper(sensor_keywords[i])

parse_filters(q) ==
    LET nl == lower(q)
    IN  platform_filter(nl) @@ altitude_filter(nl) @@ speed_filter(nl) @@ sensor_filter(nl)

(***************************************************************************)
(* The two tables.  A cell is a str or NA (pandas NaN).  RID is unique in  *)
(* the sortie table and seconds_in_range is non-negative, as the data      *)
(* model requires of a load.  `mapping` is a set of rows and `fixed` a bag *)
(* of rows: no statement of the pipeline depends on row order.             *)
(***************************************************************************)
NA == <<"NaN">>

RIDs == {"r1", "r2"}

Columns == {"RID", "Platform", "Altitude", "Speed", "c_uas"}

SortieKinds == {
    [Platform |-> <<"O", "R", "B">>, Altitude |-> s_High, Speed |-> s_Slow,
     c_uas |-> <<"p", "c", "l">>],
    [Platform |-> <<"O", "r", "b">>, Altitude |-> s_Low, Speed |-> s_Fast,
     c_uas |-> <<"G", "O", "T", "C", "H", "A">>],
    [Platform |-> NA, Altitude |-> <<"H", "i", "g", "h", "-", "A", "l", "t">>, Speed |-> s_Slow,
     c_uas |-> NA] }

SortieRow(rid, k) ==
    [RID |-> rid, Platform |-> k.Platform, Altitude |-> k.Altitude, Speed |-> k.Speed,
     c_uas |-> k.c_uas]

Mappings ==
    UNION {{{SortieRow(r, f[r]) : r \in D} : f \in [D -> SortieKinds]} : D \in SUBSET RIDs}

EventKinds ==
    [track_id : RIDs, event_type : {<<"E", "N", "T", "E", "R">>}, seconds_in_range : {30, 45}]
    \cup [track_id : RIDs, event_type : {<<"e", "x", "i", "t">>}, seconds_in_range : {999}]

Fixeds ==
    UNION {{b \in [D -> 1..MaxEvents] : BagCardinality(b) <= MaxEvents} :
           D \in {X \in SUBSET EventKinds : Cardinality(X) <= MaxEvents}}

(***************************************************************************)
(* draw_sensor_piechart: filtering, join and aggregation.                  *)
(***************************************************************************)
s_enter == <<"e", "n", "t", "e", "r">>

warning == "No flights match the given filters."

\* filters.pop("c_uas", "PCL")
sensor_name_of(f) == IF "c_uas" \in DOMAIN f THEN f["c_uas"] ELSE s_PCL

\* variant: c_uas left in the dict, so the loop filters rows on it
applied_filters_unpopped(f) == f

\* {**filters} after the pop
applied_filters_of(f) == [k \in DOMAIN f \ {"c_uas"} |-> f[k]]

\* Series.str.contains(val, case=False, na=False)
str_contains(cell, val) == cell # NA /\ Contains(lower(cell), lower(val))

\* the loop over applied_filters: each present column keeps the rows that contain val
filter_rows(df, applied) ==
    {r \in df : \A col \in DOMAIN applied :
        col \in Columns => str_contains(r[col], applied[col])}

\* variant: the empty check never taken
df_empty_never(df) == FALSE

\* df.empty
df_empty(df) == df = {}

\* variant: the rows are dropped from the shared table itself
mapping_after_inplace(m, df) == df

\* what a call leaves in the module-level `mapping`: df is a copy, rebound locally
mapping_after(m, df) == m

EventOf(m) ==
    [track_id |-> m.track_id, event_type |-> m.event_type,
     seconds_in_range |-> m.seconds_in_range]

MergedRow(e, r) ==
    [track_id |-> e.track_id, event_type |-> e.event_type,
     seconds_in_range |-> e.seconds_in_range,
     RID |-> r.RID, Platform |-> r.Platform, Altitude |-> r.Altitude, Speed |-> r.Speed,
     c_uas |-> r.c_uas]

\* fixed.merge(df, left_on="track_id", right_on="RID", how="inner")
merge(fx, df) ==
    LET pairs == {p \in BagToSet(fx) \X df : p[1].track_id = p[2].RID}
    IN  [m \in {MergedRow(p[1], p[2]) : p \in pairs} |-> fx[EventOf(m)]]

\* variant: no event_type filter
enter_events_any_type(mg) == mg

\* merged[merged["event_type"].str.lower() == "enter"]
enter_events_of(mg) == [m \in {x \in DOMAIN mg : lower(x.event_type) = s_enter} |-> mg[m]]

\* enter_events[enter_events["c_uas"].str.contains(sensor_name, case=False, na=False)]
sensor_events_of(en, sensor) ==
    [m \in {x \in DOMAIN en : str_contains(x.c_uas, sensor)} |-> en[m]]

\* Series.sum() of seconds_in_range over the rows of a bag
RECURSIVE seconds_sum(_)
seconds_sum(b) ==
    IF DOMAIN b = {} THEN 0
    ELSE LET m == CHOOSE x \in DOMAIN b : TRUE
         IN  b[m] * m.seconds_in_range + seconds_sum([x \in DOMAIN b \ {m} |-> b[x]])

\* variant: identical rows summed once
total_airtime_deduplicated(en) == seconds_sum([m \in DOMAIN en |-> 1])

\* float(enter_events["seconds_in_range"].sum())
total_airtime_of(en) == seconds_sum(en)

\* float(sensor_events["seconds_in_range"].sum())
detected_airtime_of(en, sensor) == seconds_sum(sensor_events_of(en, sensor))

Max(a, b) == IF a >= b THEN a ELSE b

\* variant: the quotient taken the other way round
coverage_pct_swapped(detected, total) ==
    IF total # 0 THEN [num |-> total * 100, den |-> detected] ELSE [num |-> 0, den |-> 1]

\* detected / total * 100 if total else 0.0, as an exact fraction
coverage_pct_of(detected, total) ==
    IF total # 0 THEN [num |-> detected * 100, den |-> total] ELSE [num |-> 0, den |-> 1]

\* steps 1 to 3 of the call on tables m, fx and parsed filters f: every local it binds
\* up to the aggregates (merged and the aggregates are bound on the normal path only)
locals_of(m, fx, f) ==
    LET sensor_name == sensor_name_of(f)
        applied_filters == applied_filters_of(f)
        df == filter_rows(m, applied_filters)
        mg == merge(fx, df)
        enter_events == enter_events_of(mg)
        total_airtime == total_airtime_of(enter_events)
        detected_airtime == detected_airtime_of(enter_events, sensor_name)
    IN  [sensor_name |-> sensor_name,
         applied_filters |-> applied_filters,
         df |-> df,
         merged |-> mg,
         total_airtime |-> total_airtime,
         detected_airtime |-> detected_airtime,
         undetected_airtime |-> Max(total_airtime - detected_airtime, 0)]

(***************************************************************************)
(* Rendering: BytesIO, pyplot's figure registry, Axes.pie.                 *)
(***************************************************************************)
BytesIO == [data |-> <<>>, pos |-> 0]

\* savefig(buf, format="png"): the image is written at the current position
savefig(b, image) ==
    LET bytes == <<"PNG", image, "IEND">>
    IN  [data |-> SubSeq(b.data, 1, b.pos) \o bytes, pos |-> b.pos + Len(bytes)]

seek(b, p) == [b EXCEPT !.pos = p]

\* what a caller reading from the current position obtains
read(b) == SubSeq(b.data, b.pos + 1, Len(b.data))

\* plt.figure() / plt.subplots(): the next free figure number
new_figure(open) ==
    IF open = {} THEN 1 ELSE 1 + CHOOSE n \in open : \A k \in open : k <= n

\* plt.close() / plt.close(fig)
close(open, n) == open \ {n}

\* ax.pie(sizes): with both sizes zero the wedge fractions are 0/0; the releases of
\* matplotlib that normalise by the sum raise ValueError there, older ones draw
pie_outcomes(sizes) ==
    IF sizes[1] + sizes[2] = 0 THEN {"ok", "ValueError"} ELSE {"ok"}

None == [none |-> TRUE]

(***************************************************************************)
(* The inputs.                                                             *)
(***************************************************************************)
\* vocabulary of the queries given to parse_filters alone
Words == {
    <<"o", "r", "b">>, <<"a", "b", "s", "o", "r", "b">>, <<"K", "a", "i", "r", "o", "s">>,
    <<"h", "i", "g", "h">>, <<"H", "I", "G", "H">>, <<"h", "i", "g", "h", "w", "a", "y">>,
    <<"l", "o", "w">>, <<"s", "l", "o", "w">>, <<"m", "e", "d", "i", "u", "m">>,
    <<"s", "p", "e", "e", "d">>, <<"g", "o", "t", "c", "h", "a">>,
    <<"f", "l", "i", "g", "h", "t", "s">> }

WordSeqs == UNION {[1..n -> Words] : n \in 0..MaxWords}

\* queries given to draw_sensor_piechart: one optional word per kind of keyword
PlatformSlot == {<<>>, <<"o", "r", "b">>, <<"b", "l", "i", "m", "p">>,
                 <<"f", "l", "i", "g", "h", "t", "s">>}
AltitudeSlot == {<<>>, s_high, s_low}
SpeedSlot == {<<>>, s_slow}
SensorSlot == {<<>>, <<"p", "c", "l">>, <<"g", "o", "t", "c", "h", "a">>}

NonEmpty(w) == w # <<>>

DrawInputs ==
    {SelectSeq(<<p, a, s, c>>, NonEmpty) :
        p \in PlatformSlot, a \in AltitudeSlot, s \in SpeedSlot, c \in SensorSlot}

\* queries of a serving session
SessionInputs == {
    <<>>,
    << <<"o", "r", "b">> >>,
    << s_high, <<"g", "o", "t", "c", "h", "a">> >> }

(***************************************************************************)
(* State machine.                                                          *)
(***************************************************************************)
Loaded ==
    /\ figs = {}
    /\ pc = "idle"
    /\ filters = None
    /\ merged = None
    /\ fig = 0
    /\ buf = None
    /\ summary = None
    /\ memo = None

\* after import: both CSV files are loaded
Init ==
    /\ mapping \in Mappings
    /\ fixed \in Fixeds
    /\ nl_words = <<>>
    /\ Loaded

\* parse_filters is pure: its value on each query the model draws, tabulated
filters_of == [w \in DrawInputs \cup SessionInputs |-> parse_filters(JoinWords(w))]

\* one call draw_sensor_piechart(" ".join(w)), from the parse to the return or the raise
DrawCall(w) ==
    LET f == filters_of[w]
        l == locals_of(mapping, fixed, f)
        n == new_figure(figs)
        sizes == <<l.detected_airtime, l.undetected_airtime>>
    IN  /\ nl_words' = w
        /\ filters' = f
        /\ mapping' = mapping_after(mapping, l.df)
        /\ fixed' = fixed
        /\ fig' = n
        /\ IF df_empty(l.df)
           THEN /\ merged' = None
                /\ buf' = savefig(BytesIO, <<"text", warning>>)
                /\ figs' = close(figs \cup {n}, n)
                /\ summary' = [error |-> warning,
                               flights |-> 0,
                               total_airtime_sec |-> 0,
                               detected_airtime_sec |-> 0,
                               coverage_pct |-> [num |-> 0, den |-> 1],
                               filters_applied |-> l.applied_filters,
                               sensor |-> l.sensor_name]
                /\ pc' = "returned"
           ELSE /\ merged' = [rows |-> l.merged]
                /\ \E outcome \in pie_outcomes(sizes) :
                     IF outcome = "ok"
                     THEN /\ buf' = seek(savefig(BytesIO, <<"pie", sizes>>), 0)
                          /\ figs' = close(figs \cup {n}, n)
                          /\ summary' =
                                 [flights |-> Cardinality(l.df),
                                  total_airtime_sec |-> l.total_airtime,
                                  detected_airtime_sec |-> l.detected_airtime,
                                  coverage_pct |->
                                      coverage_pct_of(l.detected_airtime, l.total_airtime),
                                  filters_applied |-> l.applied_filters,
                                  sensor |-> l.sensor_name]
                          /\ pc' = "returned"
                     ELSE /\ buf' = None
                          /\ figs' = figs \cup {n}
                          /\ summary' = None
                          /\ pc' = "raised"

\* a process that serves one query
Draw ==
    /\ pc = "idle"
    /\ \E w \in DrawInputs : DrawCall(w)
    /\ UNCHANGED memo

Next == Draw

Spec == Init /\ [][Next]_vars

\* a serving process: query after query; memo keeps the first answer and whether
\* another query has run since
DrawAgain ==
    /\ Cardinality(figs) <= MaxLeaked
    /\ \E w \in SessionInputs : DrawCall(w)
    /\ memo' = IF memo = None
               THEN IF pc' = "returned"
                    THEN [nl_words |-> nl_words', summary |-> summary', others |-> FALSE]
                    ELSE None
               ELSE [memo EXCEPT !.others = @ \/ nl_words' # memo.nl_words]

NextSession == DrawAgain

SpecSession == Init /\ [][NextSession]_vars

\* parse_filters on its own
InitParse ==
    /\ mapping = {}
    /\ fixed = EmptyBag
    /\ nl_words \in WordSeqs
    /\ Loaded

Parse ==
    /\ pc = "idle"
    /\ filters' = parse_filters(nl_query)
    /\ pc' = "parsed"
    /\ UNCHANGED <<mapping, fixed, figs, nl_words, merged, fig, buf, summary, memo>>

NextParse == Parse

SpecParse == InitParse /\ [][NextParse]_vars

(***************************************************************************)
(* Reference definitions the properties are stated with: what the          *)
(* specification says a summary is, computed from the tables directly.     *)
(***************************************************************************)
Returned == pc = "returned"

\* the Platform / Altitude / Speed part of a parsed dict
RowFilters(f) == [k \in DOMAIN f \cap {"Platform", "Altitude", "Speed"} |-> f[k]]

\* the sortie rows whose cells contain every filter value, case-insensitively
Survivors(applied) ==
    {r \in mapping : \A col \in DOMAIN applied :
        r[col] # NA /\ Contains(lower(r[col]), lower(applied[col]))}

IsEnter(e) == lower(e.event_type) = s_enter

JoinsTo(e, rows) == \E r \in rows : r.RID = e.track_id

DetectedBy(e, rows, sensor) ==
    \E r \in rows : r.RID = e.track_id /\ r.c_uas # NA /\ Contains(lower(r.c_uas), lower(sensor))

\* sum of seconds_in_range over the rows of `fixed` whose kind is in S
RECURSIVE EventSum(_)
EventSum(S) ==
    IF S = {} THEN 0
    ELSE LET e == CHOOSE x \in S : TRUE
         IN  fixed[e] * e.seconds_in_range + EventSum(S \ {e})

\* number of rows of `fixed` whose kind is in S
RECURSIVE EventCount(_)
EventCount(S) ==
    IF S = {} THEN 0
    ELSE LET e == CHOOSE x \in S : TRUE IN fixed[e] + EventCount(S \ {e})

\* some word of the query is w, case-insensitively
HasWord(w) == \E j \in DOMAIN nl_words : lower(nl_words[j]) = w

\* the query holds no platform, altitude or speed keyword
NoKeyword ==
    LET nl == lower(nl_query)
    IN  /\ \A i \in DOMAIN platform_keywords : ~Contains(nl, platform_keywords[i])
        /\ \A w \in {s_high, s_low, s_medium} : ~SearchWholeWord(nl, w)
        /\ \A w \in {s_high_speed, s_fast, s_low_speed, s_slow, s_medium_speed} :
               ~Contains(nl, w)

SensorWords == {lower(sensor_keywords[i]) : i \in DOMAIN sensor_keywords}

NotSensorWord(w) == lower(w) \notin SensorWords

\* the drawn queries that differ from w in their sensor keyword only
SensorVariants ==
    [w \in DrawInputs |->
        {v \in DrawInputs : SelectSeq(v, NotSensorWord) = SelectSeq(w, NotSensorWord)}]

(***************************************************************************)
(* Properties.                                                             *)
(***************************************************************************)

\* C1: every returned summary, on the empty-result path and on the normal path,
\* has detected_airtime_sec <= total_airtime_sec.
C1_DetectedWithinTotal ==
    Returned => summary.detected_airtime_sec <= summary.total_airtime_sec

C1_Witness ==
    /\ Returned
    /\ 0 < summary.detected_airtime_sec
    /\ summary.detected_airtime_sec < summary.total_airtime_sec
    /\ \E e \in DOMAIN fixed : fixed[e] >= 2

\* C2 as stated: coverage_pct lies in [0, 100] and is 0 exactly when
\* total_airtime_sec is 0.
C2_ZeroIffTotalZero ==
    Returned =>
        /\ summary.coverage_pct.den > 0
        /\ 0 <= summary.coverage_pct.num
        /\ summary.coverage_pct.num <= 100 * summary.coverage_pct.den
        /\ (summary.coverage_pct.num = 0 <=> summary.total_airtime_sec = 0)

\* C2 amended: coverage_pct lies in [0, 100], is 0 whenever total_airtime_sec is 0,
\* and is 0 exactly when detected_airtime_sec is 0.
C2_ZeroIffDetectedZero ==
    Returned =>
        /\ summary.coverage_pct.den > 0
        /\ 0 <= summary.coverage_pct.num
        /\ summary.coverage_pct.num <= 100 * summary.coverage_pct.den
        /\ (summary.total_airtime_sec = 0 => summary.coverage_pct.num = 0)
        /\ (summary.coverage_pct.num = 0 <=> summary.detected_airtime_sec = 0)

C2_Witness ==
    /\ Returned
    /\ summary.total_airtime_sec > 0
    /\ summary.detected_airtime_sec = 0
    /\ summary.coverage_pct.num = 0

\* C3: when no sortie row survives the filters the call returns (it does not raise)
\* a written buffer and a zeroed summary that still carries filters_applied and
\* sensor, and the join was never executed (the local `merged` is unbound).
C3_EmptyResult ==
    (pc \in {"returned", "raised"} /\ Survivors(RowFilters(filters)) = {}) =>
        /\ pc = "returned"
        /\ buf # None
        /\ buf.data # <<>>
        /\ summary.flights = 0
        /\ summary.total_airtime_sec = 0
        /\ summary.detected_airtime_sec = 0
        /\ summary.coverage_pct.num = 0
        /\ summary.filters_applied = RowFilters(filters)
        /\ summary.sensor = filters["c_uas"]
        /\ merged = None

C3_Witness ==
    /\ Returned
    /\ mapping # {}
    /\ DOMAIN fixed # {}
    /\ Survivors(RowFilters(filters)) = {}
    /\ summary.flights = 0
    /\ merged = None

\* C4: total_airtime_sec is the sum of seconds_in_range over exactly the fence
\* events that join a surviving sortie and whose type is "enter" in any case, each
\* row counted; detected_airtime_sec is the same sum over those detected by the sensor.
C4_TotalIsEnterSum ==
    Returned =>
        LET rows == Survivors(summary.filters_applied)
            counted == {e \in DOMAIN fixed : IsEnter(e) /\ JoinsTo(e, rows)}
        IN  /\ summary.total_airtime_sec = EventSum(counted)
            /\ summary.detected_airtime_sec =
                   EventSum({e \in counted : DetectedBy(e, rows, summary.sensor)})

C4_Witness ==
    /\ Returned
    /\ \E r \in Survivors(summary.filters_applied) :
          /\ EventCount({e \in DOMAIN fixed : IsEnter(e) /\ e.track_id = r.RID}) >= 2
          /\ \E e \in DOMAIN fixed : ~IsEnter(e) /\ e.track_id = r.RID
    /\ summary.total_airtime_sec > 0

\* C5 as stated: a query with no platform, altitude or speed keyword raises nothing,
\* applies no filter, and its summary is the aggregate of the whole sortie table.
C5_NoKeywordIsWholeTable ==
    (pc \in {"returned", "raised"} /\ NoKeyword) =>
        /\ pc = "returned"
        /\ summary.filters_applied = EmptyDict
        /\ summary.flights = Cardinality(mapping)
        /\ summary.total_airtime_sec =
               EventSum({e \in DOMAIN fixed : IsEnter(e) /\ JoinsTo(e, mapping)})

\* C6 as stated: Platform is set exactly when some word of the query is a platform
\* name, to the capitalized first such name in vocabulary order.
C6_PlatformWholeWord ==
    pc = "parsed" =>
        LET hits == {i \in DOMAIN platform_keywords : HasWord(platform_keywords[i])}
        IN  IF hits = {}
            THEN "Platform" \notin DOMAIN filters
            ELSE /\ "Platform" \in DOMAIN filters
                 /\ filters["Platform"] =
                        capitalize(platform_keywords[CHOOSE i \in hits : \A j \in hits : i <= j])

\* C7: no call changes the shared tables, and a call that returns for the query of
\* the first answer returns that same summary, whatever ran in between.
C7_SameAnswer ==
    [][/\ mapping' = mapping
       /\ fixed' = fixed
       /\ (pc' = "returned" /\ memo # None /\ nl_words' = memo.nl_words)
              => summary' = memo.summary]_vars

C7_Witness ==
    /\ Returned
    /\ memo # None
    /\ memo.others
    /\ nl_words = memo.nl_words
    /\ summary = memo.summary
    /\ summary.flights > 0
    /\ summary.flights < Cardinality(mapping)

\* C8: flights counts the rows surviving the Platform/Altitude/Speed filters, events
\* or not; the sensor is no row filter, is not in filters_applied, and a query that
\* differs in its sensor keyword only has the same flights and total_airtime_sec.
C8_FlightsIgnoreSensor ==
    Returned =>
        /\ "c_uas" \notin DOMAIN summary.filters_applied
        /\ summary.flights = Cardinality(Survivors(RowFilters(filters)))
        /\ \A v \in SensorVariants[nl_words] :
              LET o == locals_of(mapping, fixed, filters_of[v])
              IN  /\ Cardinality(o.df) = summary.flights
                  /\ o.total_airtime = summary.total_airtime_sec

C8_Witness ==
    /\ Returned
    /\ summary.flights = 2
    /\ summary.total_airtime_sec > 0
    /\ summary.sensor = <<"G", "O", "T", "C", "H", "A">>
    /\ \E r \in Survivors(RowFilters(filters)) :
          /\ ~\E e \in DOMAIN fixed : e.track_id = r.RID
          /\ r.c_uas = NA

\* C9: Altitude is "High" if the word "high" occurs, else "Low" if "low" occurs,
\* else "Medium" if "medium" occurs, else absent, whatever else the query holds.
C9_AltitudePrecedence ==
    pc = "parsed" =>
        IF HasWord(s_high) THEN "Altitude" \in DOMAIN filters /\ filters["Altitude"] = s_High
        ELSE IF HasWord(s_low) THEN "Altitude" \in DOMAIN filters /\ filters["Altitude"] = s_Low
        ELSE IF HasWord(s_medium)
             THEN "Altitude" \in DOMAIN filters /\ filters["Altitude"] = s_Medium
        ELSE "Altitude" \notin DOMAIN filters

C9_Witness ==
    /\ pc = "parsed"
    /\ Len(nl_words) = 2
    /\ nl_words[1] = s_low
    /\ lower(nl_words[2]) = s_high
    /\ filters["Altitude"] = s_High

\* C10 as stated: on every return path the buffer holds the image and is rewound to
\* position 0, so reading from the current position yields the whole image, and the
\* figure the call opened is closed.
C10_BufferRewound ==
    Returned =>
        /\ buf.data # <<>>
        /\ buf.pos = 0
        /\ read(buf) = buf.data
        /\ fig \notin figs

====
